---- MODULE Spec2Model ----
(***************************************************************************)
(* DeadDrop cryptography module (src/src/cpp/crypto.cpp): the two exported *)
(* functions encrypt_file (seal) and decrypt_file (open), run by one or    *)
(* more callers, statement by statement.                                   *)
(*                                                                         *)
(* Every caller (thread) owns its argument buffers; the only storage the   *)
(* functions themselves own is encrypt_file's local nonce[24].  The AEAD   *)
(* engine (Monocypher's crypto_aead_lock / crypto_aead_unlock /            *)
(* crypto_wipe) is not part of the source file; it is modelled from its    *)
(* contract as a keystream cipher with a polynomial one-time MAC.          *)
(*                                                                         *)
(* size_t and int are both WordBits wide, as on the wasm32 target the file *)
(* is compiled for (32 there); bytes keep their 8 bits.                    *)
(***************************************************************************)
EXTENDS Integers, Sequences, FiniteSets, TLC

\* ------------------------------------------------------------------ bounds
\* Width of size_t and of int (scaled down from 32).
WordBits == 8
\* Longest "small" plaintext, whose every content over PtBytes is enumerated.
MaxLen == 2
\* Number of concurrent callers in SpecConc.
NumThreads == 2

\* --------------------------------------------------------- program constants
NONCE_LEN == 24
MAC_LEN == 16
KEY_LEN == 32
OVERHEAD == 40
\* What an uninitialised / never written byte cell holds (no byte value).
Uninit == 256
\* The only error code of both functions.
ERR == -1

Calls == 1..NumThreads
SizeMod == 2^WordBits
SizeMax == SizeMod - 1
IntMax == 2^(WordBits - 1) - 1
None == "none"
\* What an int variable holds before it is assigned: no value of an int.
NoInt == SizeMod

\* ------------------------------------------------------------- C++ integers
\* size_t arithmetic is modulo 2^WordBits.
SizeAdd(a, b) == (a + b) % SizeMod
SizeSub(a, b) == (a - b + SizeMod) % SizeMod
\* static_cast<int>(size_t): the value modulo 2^WordBits, read as two's complement.
ToInt(x) == IF x > IntMax THEN x - SizeMod ELSE x

\* ------------------------------------------------------------------- bytes
Fill(n, b) == [i \in 1..n |-> b]
Zeros(n) == Fill(n, 0)
Slice(s, off, n) == [i \in 1..n |-> s[off + i]]
\* Write bytes into buf at zero-based offset off.
Poke(buf, off, bytes) ==
    [i \in 1..Len(buf) |->
        IF i > off /\ i <= off + Len(bytes) THEN bytes[i - off] ELSE buf[i]]
BitOf(x, k) == (x \div 2^k) % 2
RECURSIVE XorFrom(_, _, _)
XorFrom(a, b, k) ==
    IF k > 7 THEN 0
    ELSE 2^k * ((BitOf(a, k) + BitOf(b, k)) % 2) + XorFrom(a, b, k + 1)
Xor(a, b) == XorFrom(a, b, 0)
FlipBit(s, pos, bit) == [s EXCEPT ![pos] = Xor(s[pos], 2^bit)]
RECURSIVE SumSeq(_)
SumSeq(s) == IF s = <<>> THEN 0 ELSE Head(s) + SumSeq(Tail(s))

\* ------------------------------------------------- AEAD engine (Monocypher)
\* The engine is a collaborator of the file: a stream cipher keyed by
\* (key, nonce) and a 16-byte one-time polynomial MAC over the ciphertext.
PolyP == 257
KeyStream(key, nonce, i) ==
    (7 * SumSeq(key) + 13 * SumSeq(nonce) + 31 * i
       + key[(i % KEY_LEN) + 1] + nonce[(i % NONCE_LEN) + 1]) % 256
StreamXor(key, nonce, text) ==
    [i \in 1..Len(text) |-> Xor(text[i], KeyStream(key, nonce, i))]
PolyR(key, nonce) == 1 + ((SumSeq(key) + 3 * SumSeq(nonce)) % 256)
RECURSIVE PowMod(_, _)
PowMod(r, k) ==
    IF k = 0 THEN 1
    ELSE LET h == PowMod(r, k \div 2)
         IN  (h * h * (IF k % 2 = 1 THEN r ELSE 1)) % PolyP
\* The polynomial sum of (ct[i] + 1) * r^(n - i + 1) for i in lo..hi, modulo PolyP.
RECURSIVE PolyRange(_, _, _, _)
PolyRange(ct, r, lo, hi) ==
    IF lo > hi THEN 0
    ELSE IF lo = hi THEN ((ct[lo] + 1) * PowMod(r, Len(ct) - lo + 1)) % PolyP
    ELSE LET mid == (lo + hi) \div 2
         IN  (PolyRange(ct, r, lo, mid) + PolyRange(ct, r, mid + 1, hi)) % PolyP
PolyAcc(ct, r) == PolyRange(ct, r, 1, Len(ct))
PolyPad(key, nonce, j) ==
    (key[j] + 3 * key[j + MAC_LEN] + 5 * nonce[j] + j) % 256
AeadTag(key, nonce, ct) ==
    LET h == PolyAcc(ct, PolyR(key, nonce))
        hb(j) == IF j = 1 THEN h % 256 ELSE IF j = 2 THEN h \div 256 ELSE 0
    IN  [j \in 1..MAC_LEN |-> (hb(j) + PolyPad(key, nonce, j)) % 256]
\* crypto_aead_lock(mac, cipher_text, key, nonce, NULL, 0, plain_text, size)
crypto_aead_lock(key, nonce, text) ==
    LET ct == StreamXor(key, nonce, text)
    IN  [cipher_text |-> ct, mac |-> AeadTag(key, nonce, ct)]
\* crypto_aead_unlock(plain_text, mac, key, nonce, NULL, 0, cipher_text, size):
\* 0 and the plaintext when the tag verifies, -1 and nothing written otherwise.
crypto_aead_unlock(mac, key, nonce, ct) ==
    IF AeadTag(key, nonce, ct) = mac
    THEN [result |-> 0, written |-> TRUE, plain_text |-> StreamXor(key, nonce, ct)]
    ELSE [result |-> -1, written |-> FALSE, plain_text |-> <<>>]
\* crypto_wipe(secret, size)
crypto_wipe(size) == Zeros(size)

\* ------------------------------------------------------------------ inputs
K1 == Fill(KEY_LEN, 1)
K2 == [K1 EXCEPT ![KEY_LEN] = 2]
Keys == {K1, K2}
NonceA == [i \in 1..NONCE_LEN |-> i]
NonceB == [i \in 1..NONCE_LEN |-> 100 + i]
\* What crypto.getRandomValues may fill the 24 bytes with.
Nonces == {NonceA, NonceB}
PtBytes == {65, 66}
SmallTexts == UNION {[1..k -> PtBytes] : k \in 0..MaxLen}
\* Lengths around the point where plaintext_len + 40 leaves the range of int,
\* and one past the range of int itself.
BigLens == {IntMax - OVERHEAD, IntMax - OVERHEAD + 1, IntMax + 1}
BigTexts == {Fill(n, 65) : n \in BigLens}
ConcTexts == {<<>>, <<66>>}
\* The buffers of one call and the key fit the address space.
MemFits(n) == n + OVERHEAD + KEY_LEN <= SizeMax

VARIABLES threads, pc, op, arg, out, nonceMem, result, ret, outcome,
          hist, drawn, eng, sealed, given

vars == <<threads, pc, op, arg, out, nonceMem, result, ret, outcome,
          hist, drawn, eng, sealed, given>>

Rich == Cardinality(threads) = 1
Texts == IF Rich THEN SmallTexts \cup BigTexts ELSE ConcTexts
KeysIn == IF Rich THEN Keys ELSE {K1}
\* The draws of caller c: either nonce for a single caller; with concurrent
\* callers, neighbouring callers draw different nonces.
Draws(c) == IF Rich THEN Nonces ELSE {IF c % 2 = 1 THEN NonceA ELSE NonceB}
NullArgs == IF Rich THEN {"none", "in", "key", "out"} ELSE {"none"}
\* Bit positions a test flips in an envelope (one-based byte, bit).
FlipPlaces(env) ==
    LET n == Len(env)
        bytes == IF ~Rich THEN {NONCE_LEN + 1}
                 ELSE IF n <= OVERHEAD + MaxLen THEN 1..n
                 ELSE {1, NONCE_LEN, NONCE_LEN + 1, n - MAC_LEN,
                       n - MAC_LEN + 1, n}
        bits == IF ~Rich THEN {0}
                ELSE IF n <= OVERHEAD + MaxLen THEN 0..7 ELSE {0, 7}
    IN  bytes \X bits

\* Faulty variant: the nonce buffer declared static, one storage for every call.
NonceSlotStatic(c) == 1
\* The storage of encrypt_file's local `uint8_t nonce[24]`: the frame of the
\* calling thread.  Outside the lifetime of the local its bytes are
\* indeterminate.
NonceSlot(c) == c
Indeterminate == Fill(NONCE_LEN, Uninit)

\* Faulty variant: the ciphertext region starts one byte early.
CiphertextOffsetShort == NONCE_LEN - 1
\* Faulty variant: the tag region placed without the plaintext length.
MacOffsetNoLen(n) == NONCE_LEN
\* Layout of the envelope: [nonce | ciphertext | mac].
CiphertextOffset == NONCE_LEN
MacOffset(n) == SizeAdd(NONCE_LEN, n)

Idle(c) == c \in threads /\ pc[c] = "idle"

NoCall ==
    [in |-> <<>>, len |-> 0, key |-> <<>>,
     inNull |-> FALSE, keyNull |-> FALSE, outNull |-> FALSE]

\* No envelope kept yet; no call made yet.
NoSeal == [has |-> FALSE, env |-> <<>>, pt |-> <<>>, key |-> <<>>]
NoGiven == [kind |-> "none", pos |-> 0, bit |-> 0, len |-> 0]

Init1(T) ==
    /\ threads = T
    /\ pc = [c \in Calls |-> "idle"]
    /\ op = [c \in Calls |-> None]
    /\ arg = [c \in Calls |-> NoCall]
    /\ out = [c \in Calls |-> <<>>]
    /\ nonceMem = [c \in Calls |-> Indeterminate]
    /\ result = [c \in Calls |-> NoInt]
    /\ ret = [c \in Calls |-> NoInt]
    /\ outcome = [c \in Calls |-> None]
    /\ hist = [c \in Calls |-> <<>>]
    /\ drawn = [c \in Calls |-> <<>>]
    /\ eng = [c \in Calls |-> <<>>]
    /\ sealed = [c \in Calls |-> NoSeal]
    /\ given = [c \in Calls |-> NoGiven]

Init == Init1({1})
InitConc == Init1(Calls)

\* A caller enters a function: its arguments are set, its locals are
\* indeterminate, nothing has been done yet.
Enter(c, f, a, o, g) ==
    /\ op' = [op EXCEPT ![c] = f]
    /\ arg' = [arg EXCEPT ![c] = a]
    /\ out' = [out EXCEPT ![c] = o]
    /\ given' = [given EXCEPT ![c] = g]
    /\ pc' = [pc EXCEPT ![c] = "validate"]
    /\ result' = [result EXCEPT ![c] = NoInt]
    /\ ret' = [ret EXCEPT ![c] = NoInt]
    /\ outcome' = [outcome EXCEPT ![c] = None]
    /\ hist' = [hist EXCEPT ![c] = <<>>]
    /\ drawn' = [drawn EXCEPT ![c] = <<>>]
    /\ eng' = [eng EXCEPT ![c] = <<>>]
    /\ UNCHANGED <<threads, sealed>>

Leave(c, v) ==
    /\ ret' = [ret EXCEPT ![c] = v]
    /\ outcome' = [outcome EXCEPT ![c] = "returned"]
    /\ pc' = [pc EXCEPT ![c] = "done"]

Step(c, name) == hist' = [hist EXCEPT ![c] = Append(@, name)]
Goto(c, label) == pc' = [pc EXCEPT ![c] = label]

\* ------------------------------------------------------------ encrypt_file
\* A caller calls encrypt_file(plaintext, plaintext_len, key, output) with an
\* output buffer of plaintext_len + 40 bytes.
CallEncrypt(c) ==
    /\ Idle(c)
    /\ \E p \in Texts, k \in KeysIn, nul \in NullArgs :
         /\ MemFits(Len(p))
         /\ Enter(c, "encrypt_file",
                  [in |-> IF nul = "in" THEN <<>> ELSE p,
                   len |-> Len(p),
                   key |-> IF nul = "key" THEN <<>> ELSE k,
                   inNull |-> nul = "in", keyNull |-> nul = "key",
                   outNull |-> nul = "out"],
                  IF nul = "out" THEN <<>>
                  ELSE Fill(Len(p) + OVERHEAD, Uninit),
                  [kind |-> "seal", pos |-> 0, bit |-> 0, len |-> 0])
    /\ UNCHANGED nonceMem

\* Faulty variant: the empty plaintext is not rejected.
EncInvalidNoLen(a) == a.inNull \/ a.keyNull \/ a.outNull
\* if (!plaintext || !key || !output || plaintext_len == 0)
EncInvalid(a) == a.inNull \/ a.keyNull \/ a.outNull \/ a.len = 0

EncValidate(c) ==
    /\ c \in threads /\ pc[c] = "validate" /\ op[c] = "encrypt_file"
    /\ IF EncInvalid(arg[c])
       THEN Leave(c, ERR)
       ELSE Goto(c, "draw") /\ UNCHANGED <<ret, outcome>>
    /\ UNCHANGED <<threads, op, arg, out, nonceMem, result, hist, drawn,
                   eng, sealed, given>>

\* Faulty variant: a failure of the random source is swallowed and the function goes
\* on with the nonce buffer as it is.
EncDrawIgnoringFailure(c) ==
    /\ c \in threads /\ pc[c] = "draw"
    /\ Step(c, "draw")
    /\ \/ \E n \in Draws(c) :
            /\ nonceMem' = [nonceMem EXCEPT ![NonceSlot(c)] = n]
            /\ drawn' = [drawn EXCEPT ![c] = n]
       \/ UNCHANGED <<nonceMem, drawn>>
    /\ Goto(c, "copy")
    /\ UNCHANGED <<threads, op, arg, out, result, ret, outcome, eng, sealed,
                   given>>

\* Faulty variant: a failure of the random source is caught and reported as -1.
EncDrawFailureReturns(c) ==
    /\ c \in threads /\ pc[c] = "draw"
    /\ Step(c, "draw")
    /\ \/ \E n \in Draws(c) :
            /\ nonceMem' = [nonceMem EXCEPT ![NonceSlot(c)] = n]
            /\ drawn' = [drawn EXCEPT ![c] = n]
            /\ Goto(c, "copy")
            /\ UNCHANGED <<outcome, ret>>
       \/ /\ Leave(c, ERR)
          /\ nonceMem' = [nonceMem EXCEPT ![NonceSlot(c)] = Indeterminate]
          /\ UNCHANGED drawn
    /\ UNCHANGED <<threads, op, arg, out, result, eng, sealed, given>>

\* EM_ASM({ ... crypto.getRandomValues(nonceArray); }, nonce): the host fills
\* the 24 bytes, or throws, and the exception leaves encrypt_file.
EncDraw(c) ==
    /\ c \in threads /\ pc[c] = "draw"
    /\ Step(c, "draw")
    /\ \/ \E n \in Draws(c) :
            /\ nonceMem' = [nonceMem EXCEPT ![NonceSlot(c)] = n]
            /\ drawn' = [drawn EXCEPT ![c] = n]
            /\ Goto(c, "copy")
            /\ UNCHANGED outcome
       \/ /\ outcome' = [outcome EXCEPT ![c] = "threw"]
          /\ Goto(c, "done")
          /\ nonceMem' = [nonceMem EXCEPT ![NonceSlot(c)] = Indeterminate]
          /\ UNCHANGED drawn
    /\ UNCHANGED <<threads, op, arg, out, result, ret, eng, sealed, given>>

\* std::memcpy(nonce_out, nonce, 24)
EncCopy(c) ==
    /\ c \in threads /\ pc[c] = "copy"
    /\ out' = [out EXCEPT ![c] = Poke(@, 0, nonceMem[NonceSlot(c)])]
    /\ Step(c, "copy")
    /\ Goto(c, "lock")
    /\ UNCHANGED <<threads, op, arg, nonceMem, result, ret, outcome, drawn,
                   eng, sealed, given>>

\* crypto_aead_lock(mac, ciphertext, key, nonce, nullptr, 0, plaintext, plaintext_len)
EncLock(c) ==
    /\ c \in threads /\ pc[c] = "lock"
    /\ LET a == arg[c]
           nonce == nonceMem[NonceSlot(c)]
           r == crypto_aead_lock(a.key, nonce, a.in)
       IN  /\ out' = [out EXCEPT ![c] =
                        Poke(Poke(@, CiphertextOffset, r.cipher_text),
                             MacOffset(a.len), r.mac)]
           /\ eng' = [eng EXCEPT ![c] =
                        Append(@, [fn |-> "lock", key |-> a.key,
                                   nonce |-> nonce, size |-> a.len])]
    /\ Step(c, "lock")
    /\ Goto(c, "wipe")
    /\ UNCHANGED <<threads, op, arg, nonceMem, result, ret, outcome, drawn,
                   sealed, given>>

\* crypto_wipe(nonce, sizeof(nonce))
EncWipe(c) ==
    /\ c \in threads /\ pc[c] = "wipe"
    /\ nonceMem' = [nonceMem EXCEPT ![NonceSlot(c)] = crypto_wipe(NONCE_LEN)]
    /\ Step(c, "wipe")
    /\ Goto(c, "enc_return")
    /\ UNCHANGED <<threads, op, arg, out, result, ret, outcome, drawn, eng,
                   sealed, given>>

\* return static_cast<int>(plaintext_len + 40)
EncReturnValue(n) == ToInt(SizeAdd(n, OVERHEAD))

\* The caller keeps the envelope it got: the N + 40 bytes of its buffer.
EncReturn(c) ==
    /\ c \in threads /\ pc[c] = "enc_return"
    /\ Leave(c, EncReturnValue(arg[c].len))
    /\ sealed' = [sealed EXCEPT ![c] =
                    [has |-> TRUE, env |-> out[c], pt |-> arg[c].in,
                     key |-> arg[c].key]]
    /\ nonceMem' = [nonceMem EXCEPT ![NonceSlot(c)] = Indeterminate]
    /\ UNCHANGED <<threads, op, arg, out, result, hist, drawn, eng, given>>

\* ------------------------------------------------------------ decrypt_file
ShortLens == {0, NONCE_LEN, OVERHEAD - 1}
CutLens(env) ==
    IF Rich THEN ShortLens \cup {Len(env) - 1} ELSE {OVERHEAD - 1}
\* What a caller may do to an envelope before opening it.
Tampers(env) ==
    {[kind |-> "asis", pos |-> 0, bit |-> 0, len |-> Len(env)]}
    \cup {[kind |-> "flip", pos |-> pb[1], bit |-> pb[2], len |-> Len(env)] :
             pb \in FlipPlaces(env)}
    \cup {[kind |-> "cut", pos |-> 0, bit |-> 0, len |-> n] :
             n \in CutLens(env)}
Tampered(env, t) ==
    CASE t.kind = "asis" -> env
      [] t.kind = "flip" -> FlipBit(env, t.pos, t.bit)
      [] t.kind = "cut" -> SubSeq(env, 1, t.len)
\* The plaintext buffer a caller of decrypt_file provides.
DecOutSize(n) == IF n >= OVERHEAD THEN n - OVERHEAD ELSE 1

EnterDecrypt(c, env, k, nul, g) ==
    Enter(c, "decrypt_file",
          [in |-> IF nul = "in" THEN <<>> ELSE env,
           len |-> Len(env),
           key |-> IF nul = "key" THEN <<>> ELSE k,
           inNull |-> nul = "in", keyNull |-> nul = "key",
           outNull |-> nul = "out"],
          IF nul = "out" THEN <<>> ELSE Fill(DecOutSize(Len(env)), Uninit),
          g)

\* A caller calls decrypt_file(encrypted, encrypted_len, key, plaintext) on
\* the envelope it sealed (as it is, with one bit flipped, or cut short), or
\* on a 40-byte envelope made for an empty plaintext.
CallDecrypt(c) ==
    /\ Idle(c)
    /\ \/ /\ sealed[c].has
          /\ LET env == sealed[c].env
                 asis == [kind |-> "asis", pos |-> 0, bit |-> 0,
                          len |-> Len(env)]
             IN  \/ \E t \in Tampers(env) :
                       EnterDecrypt(c, Tampered(env, t), sealed[c].key,
                                    "none", t)
                 \/ \E k \in KeysIn \ {sealed[c].key} :
                       EnterDecrypt(c, env, k, "none", asis)
                 \/ \E nul \in NullArgs \ {"none"} :
                       EnterDecrypt(c, env, sealed[c].key, nul, asis)
       \/ \E k \in KeysIn, kk \in KeysIn,
             n \in (IF Rich THEN Nonces ELSE {NonceA}) :
             EnterDecrypt(c, n \o AeadTag(kk, n, <<>>), k, "none",
                          [kind |-> IF k = kk THEN "empty" ELSE "emptybad",
                           pos |-> 0, bit |-> 0, len |-> OVERHEAD])
    /\ UNCHANGED nonceMem

\* Faulty variant: the bound of the structural check is off by one.
DecInvalidOffByOne(a) ==
    a.inNull \/ a.keyNull \/ a.outNull \/ a.len <= OVERHEAD
\* if (!encrypted || !key || !plaintext || encrypted_len < 40)
DecInvalid(a) == a.inNull \/ a.keyNull \/ a.outNull \/ a.len < OVERHEAD

DecValidate(c) ==
    /\ c \in threads /\ pc[c] = "validate" /\ op[c] = "decrypt_file"
    /\ IF DecInvalid(arg[c])
       THEN Leave(c, ERR)
       ELSE Goto(c, "unlock") /\ UNCHANGED <<ret, outcome>>
    /\ UNCHANGED <<threads, op, arg, out, nonceMem, result, hist, drawn,
                   eng, sealed, given>>

\* const size_t plaintext_len = encrypted_len - 40
DecPlaintextLen(n) == SizeSub(n, OVERHEAD)

\* int result = crypto_aead_unlock(plaintext, mac, key, nonce, nullptr, 0,
\*                                 ciphertext, plaintext_len)
DecUnlock(c) ==
    /\ c \in threads /\ pc[c] = "unlock"
    /\ LET a == arg[c]
           plaintext_len == DecPlaintextLen(a.len)
           nonce == Slice(a.in, 0, NONCE_LEN)
           ciphertext == Slice(a.in, CiphertextOffset, plaintext_len)
           mac == Slice(a.in, MacOffset(plaintext_len), MAC_LEN)
           r == crypto_aead_unlock(mac, a.key, nonce, ciphertext)
       IN  /\ result' = [result EXCEPT ![c] = r.result]
           /\ out' = [out EXCEPT ![c] =
                        IF r.written THEN Poke(@, 0, r.plain_text) ELSE @]
           /\ eng' = [eng EXCEPT ![c] =
                        Append(@, [fn |-> "unlock", key |-> a.key,
                                   nonce |-> nonce, size |-> plaintext_len])]
    /\ Step(c, "unlock")
    /\ Goto(c, "dec_return")
    /\ UNCHANGED <<threads, op, arg, nonceMem, ret, outcome, drawn, sealed,
                   given>>

\* Faulty variant: the engine's verdict is not looked at.
DecReturnValueUnchecked(res, n) == ToInt(n)
\* Faulty variant: the engine's verdict is read the wrong way round.
DecReturnValueInverted(res, n) == IF res = -1 THEN ToInt(n) ELSE ERR
\* return (result == 0) ? static_cast<int>(plaintext_len) : -1
DecReturnValue(res, n) == IF res = 0 THEN ToInt(n) ELSE ERR

DecReturn(c) ==
    /\ c \in threads /\ pc[c] = "dec_return"
    /\ Leave(c, DecReturnValue(result[c], DecPlaintextLen(arg[c].len)))
    /\ UNCHANGED <<threads, op, arg, out, nonceMem, result, hist, drawn,
                   eng, sealed, given>>

\* The caller has taken the result of its call and released the buffers of
\* the call; it keeps the envelope of its last seal.
Release(c) ==
    /\ c \in threads /\ pc[c] = "done"
    /\ pc' = [pc EXCEPT ![c] = "idle"]
    /\ op' = [op EXCEPT ![c] = None]
    /\ arg' = [arg EXCEPT ![c] = NoCall]
    /\ out' = [out EXCEPT ![c] = <<>>]
    /\ given' = [given EXCEPT ![c] = NoGiven]
    /\ result' = [result EXCEPT ![c] = NoInt]
    /\ ret' = [ret EXCEPT ![c] = NoInt]
    /\ outcome' = [outcome EXCEPT ![c] = None]
    /\ hist' = [hist EXCEPT ![c] = <<>>]
    /\ drawn' = [drawn EXCEPT ![c] = <<>>]
    /\ eng' = [eng EXCEPT ![c] = <<>>]
    /\ UNCHANGED <<threads, nonceMem, sealed>>

Next ==
    \E c \in Calls :
       \/ CallEncrypt(c)
       \/ EncValidate(c)
       \/ EncDraw(c)
       \/ EncCopy(c)
       \/ EncLock(c)
       \/ EncWipe(c)
       \/ EncReturn(c)
       \/ CallDecrypt(c)
       \/ DecValidate(c)
       \/ DecUnlock(c)
       \/ DecReturn(c)
       \/ Release(c)

\* One caller at a time, every input.
Spec == Init /\ [][Next]_vars
\* NumThreads callers at once, on a smaller set of inputs.
SpecConc == InitConc /\ [][Next]_vars

\* ---------------------------------------------------------------- properties
IsSeal(c) == c \in threads /\ op[c] = "encrypt_file"
IsOpen(c) == c \in threads /\ op[c] = "decrypt_file"
Done(c) == c \in threads /\ pc[c] = "done"
Returned(c) == Done(c) /\ outcome[c] = "returned"
NoNull(a) == ~a.inNull /\ ~a.keyNull /\ ~a.outNull
Untouched(buf) == \A i \in 1..Len(buf) : buf[i] = Uninit
\* The call opens, under the key it was sealed with, the envelope as sealed.
OpensOwnEnvelope(c) ==
    /\ IsOpen(c) /\ sealed[c].has /\ NoNull(arg[c])
    /\ given[c].kind = "asis"
    /\ arg[c].in = sealed[c].env /\ arg[c].key = sealed[c].key

\* C1 (round trip): opening, under the same key, the envelope encrypt_file
\* produced for a plaintext of one byte or more succeeds (the tag verifies and
\* the return value is not the error code) and leaves in the plaintext buffer
\* exactly the bytes that were sealed, whichever nonce was drawn.
C1_RoundTrip ==
    \A c \in Calls :
       (Returned(c) /\ OpensOwnEnvelope(c)) =>
          /\ result[c] = 0
          /\ ret[c] # ERR
          /\ Len(sealed[c].pt) >= 1
          /\ out[c] = sealed[c].pt

C1_Witness ==
    \E c \in Calls :
       /\ Returned(c) /\ OpensOwnEnvelope(c)
       /\ Len(sealed[c].pt) = MaxLen
       /\ out[c] = sealed[c].pt
       /\ Slice(sealed[c].env, 0, NONCE_LEN) = NonceB

\* C2 (length law): every seal that passes validation and returns reports
\* plaintext_len + 40, and every open whose tag verifies reports
\* encrypted_len - 40, for every length a size_t can hold.
C2_LengthLaw ==
    \A c \in Calls :
       /\ (Returned(c) /\ IsSeal(c) /\ ~EncInvalid(arg[c])) =>
             ret[c] = arg[c].len + OVERHEAD
       /\ (Returned(c) /\ IsOpen(c) /\ result[c] = 0) =>
             ret[c] = arg[c].len - OVERHEAD

\* The call opens, under the sealing key, the sealed envelope with one bit of
\* its ciphertext or tag region flipped.
OpensFlipped(c) ==
    /\ IsOpen(c) /\ sealed[c].has /\ NoNull(arg[c])
    /\ given[c].kind = "flip" /\ given[c].pos > NONCE_LEN
    /\ arg[c].in = FlipBit(sealed[c].env, given[c].pos, given[c].bit)
    /\ arg[c].key = sealed[c].key

\* C3 (tamper detection): an envelope with one bit flipped in its ciphertext
\* or tag region is passed to the engine, fails verification there, and
\* decrypt_file returns -1 with the plaintext buffer left unwritten.
C3_TamperDetected ==
    \A c \in Calls :
       (Returned(c) /\ OpensFlipped(c)) =>
          /\ Len(eng[c]) = 1
          /\ result[c] = -1
          /\ ret[c] = ERR
          /\ Untouched(out[c])

C3_Witness ==
    \E c \in Calls :
       /\ Returned(c) /\ OpensFlipped(c)
       /\ Len(sealed[c].pt) = MaxLen
       /\ given[c].pos = NONCE_LEN + MaxLen
       /\ ret[c] = ERR

\* C4 (wrong key): opening an untouched envelope under a key other than the
\* one it was sealed with fails verification and returns -1.
C4_WrongKeyRejected ==
    \A c \in Calls :
       (/\ Returned(c) /\ IsOpen(c) /\ sealed[c].has /\ NoNull(arg[c])
        /\ given[c].kind = "asis" /\ arg[c].in = sealed[c].env
        /\ arg[c].key # sealed[c].key) =>
          /\ Len(eng[c]) = 1
          /\ result[c] = -1
          /\ ret[c] = ERR
          /\ Untouched(out[c])

C4_Witness ==
    \E c \in Calls :
       /\ Returned(c) /\ IsOpen(c) /\ sealed[c].has /\ NoNull(arg[c])
       /\ given[c].kind = "asis"
       /\ sealed[c].key = K1 /\ arg[c].key = K2
       /\ ret[c] = ERR

\* C5 (open boundary): an envelope shorter than 40 bytes never reaches the
\* engine: decrypt_file returns -1 at validation with the plaintext buffer
\* unwritten; an envelope of exactly 40 bytes passes the check and reaches the
\* engine with a ciphertext of length 0.
C5_OpenBoundary ==
    \A c \in Calls :
       IsOpen(c) =>
          /\ (arg[c].len < OVERHEAD /\ pc[c] # "validate") =>
                /\ Returned(c) /\ ret[c] = ERR
                /\ eng[c] = <<>> /\ Untouched(out[c])
          /\ (arg[c].len = OVERHEAD /\ NoNull(arg[c]) /\ Done(c)) =>
                /\ Len(eng[c]) = 1
                /\ eng[c][1].fn = "unlock" /\ eng[c][1].size = 0

C5_Witness ==
    \E c \in Calls :
       /\ IsOpen(c) /\ Returned(c) /\ NoNull(arg[c])
       /\ arg[c].len = OVERHEAD - 1
       /\ ret[c] = ERR /\ eng[c] = <<>>

\* C6 (seal input rejection): encrypt_file called with plaintext_len = 0 or a
\* null key returns -1 at validation: nothing is written to the output
\* buffer, the random source is not drawn from, the engine is not invoked.
C6_SealRejectsInput ==
    \A c \in Calls :
       (IsSeal(c) /\ (arg[c].len = 0 \/ arg[c].keyNull)
          /\ pc[c] # "validate") =>
          /\ Returned(c) /\ ret[c] = ERR
          /\ hist[c] = <<>> /\ eng[c] = <<>>
          /\ Untouched(out[c])

C6_Witness ==
    \E c \in Calls :
       /\ IsSeal(c) /\ Returned(c)
       /\ arg[c].len = 0 /\ NoNull(arg[c])
       /\ Len(out[c]) = OVERHEAD /\ Untouched(out[c])
       /\ ret[c] = ERR

\* The random source was asked and supplied nothing.
DrawFailed(c) == IsSeal(c) /\ hist[c] # <<>> /\ drawn[c] = <<>>

\* C7 (random source failure): when the draw fails, encrypt_file ends there
\* with the host's exception: it returns no value, the engine is not invoked
\* and the output buffer holds no envelope; and whenever the engine is
\* invoked by encrypt_file, its nonce is the 24 bytes the random source
\* supplied in this call.
C7_RandomFailure ==
    \A c \in Calls :
       /\ DrawFailed(c) =>
             /\ Done(c) /\ outcome[c] = "threw" /\ ret[c] = NoInt
             /\ hist[c] = <<"draw">> /\ eng[c] = <<>>
             /\ Untouched(out[c])
       /\ IsSeal(c) =>
             \A i \in 1..Len(eng[c]) :
                drawn[c] \in Nonces /\ eng[c][i].nonce = drawn[c]

C7_Witness ==
    \E c \in Calls :
       /\ DrawFailed(c) /\ Done(c) /\ outcome[c] = "threw"
       /\ Len(out[c]) = MaxLen + OVERHEAD /\ Untouched(out[c])

\* Why a finished call failed, from its inputs and what happened in it.
FailKind(c) ==
    CASE IsSeal(c) /\ EncInvalid(arg[c]) -> "invalid"
      [] IsOpen(c) /\ DecInvalid(arg[c]) -> "invalid"
      [] DrawFailed(c) -> "random"
      [] IsOpen(c) /\ result[c] = -1 -> "auth"
      [] OTHER -> "ok"
\* What the caller of a finished call gets.
Observed(c) == <<outcome[c], ret[c]>>

\* C8 (distinguishable error kinds), as claimed: two finished calls that
\* failed for different kinds of reason give their callers different results.
C8_Distinguishable ==
    \A c1, c2 \in Calls :
       (/\ Done(c1) /\ Done(c2)
        /\ FailKind(c1) # "ok" /\ FailKind(c2) # "ok"
        /\ FailKind(c1) # FailKind(c2)) =>
          Observed(c1) # Observed(c2)

\* C8, amended: only a random-source failure is told apart (the host's
\* exception leaves encrypt_file and no value is returned); every
\* invalid-input failure and every authentication failure returns the same -1.
C8_OnlyRandomTellsApart ==
    \A c1 \in Calls :
       Done(c1) =>
          /\ FailKind(c1) \in {"invalid", "auth"} =>
                Observed(c1) = <<"returned", ERR>>
          /\ FailKind(c1) = "random" => Observed(c1) = <<"threw", NoInt>>
          /\ \A c2 \in Calls :
                (/\ Done(c2) /\ FailKind(c1) = "random"
                 /\ FailKind(c2) \in {"invalid", "auth"}) =>
                   Observed(c1) # Observed(c2)

C8_Witness ==
    \E c1, c2 \in Calls :
       /\ Done(c1) /\ Done(c2)
       /\ FailKind(c1) = "invalid" /\ FailKind(c2) = "auth"
       /\ IsOpen(c1) /\ IsOpen(c2)
       /\ Observed(c1) = Observed(c2)

Steps == <<"draw", "copy", "lock", "wipe">>
Has(c, name) == \E i \in 1..Len(hist[c]) : hist[c][i] = name

\* C9 (nonce handling): a seal past validation runs draw, copy, lock, wipe in
\* that order, each once: one draw, before the engine; the engine is invoked
\* once, with the drawn nonce; envelope bytes 0..23 are the drawn nonce,
\* 24..24+N-1 the ciphertext and 24+N..N+39 the tag the engine produced for
\* that nonce; the local nonce is wiped only after the copy and the lock.
C9_NonceHandling ==
    \A c \in Calls :
       (IsSeal(c) /\ ~EncInvalid(arg[c]) /\ pc[c] # "validate") =>
          LET n == arg[c].len
              e == crypto_aead_lock(arg[c].key, drawn[c], arg[c].in)
          IN  /\ hist[c] = SubSeq(Steps, 1, Len(hist[c]))
              /\ Returned(c) => hist[c] = Steps
              /\ pc[c] = "draw" => hist[c] = <<>>
              /\ Has(c, "copy") =>
                    /\ drawn[c] \in Nonces
                    /\ Slice(out[c], 0, NONCE_LEN) = drawn[c]
              /\ ~Has(c, "lock") => eng[c] = <<>>
              /\ Has(c, "lock") =>
                    /\ eng[c] = <<[fn |-> "lock", key |-> arg[c].key,
                                   nonce |-> drawn[c], size |-> n]>>
                    /\ Slice(out[c], NONCE_LEN, n) = e.cipher_text
                    /\ Slice(out[c], NONCE_LEN + n, MAC_LEN) = e.mac
                    /\ Len(out[c]) = n + OVERHEAD
              /\ (Has(c, "draw") /\ drawn[c] # <<>> /\ ~Has(c, "wipe")) =>
                    nonceMem[NonceSlot(c)] = drawn[c]
              /\ pc[c] = "enc_return" => nonceMem[NonceSlot(c)] = Zeros(NONCE_LEN)

C9_Witness ==
    \E c \in Calls :
       /\ IsSeal(c) /\ Returned(c) /\ hist[c] = Steps
       /\ arg[c].len = MaxLen
       /\ drawn[c] = NonceB
       /\ out[c] = NonceB \o StreamXor(arg[c].key, NonceB, arg[c].in)
                     \o AeadTag(arg[c].key, NonceB,
                                StreamXor(arg[c].key, NonceB, arg[c].in))

\* What a call run alone gives its caller: the statements of the function in
\* sequence, on the call's own arguments and its own random draw.
AloneEncrypt(a, draw, failed, buf) ==
    IF EncInvalid(a) THEN [outcome |-> "returned", ret |-> ERR, out |-> buf]
    ELSE IF failed THEN [outcome |-> "threw", ret |-> NoInt, out |-> buf]
    ELSE LET e == crypto_aead_lock(a.key, draw, a.in)
         IN  [outcome |-> "returned", ret |-> EncReturnValue(a.len),
              out |-> draw \o e.cipher_text \o e.mac]
AloneDecrypt(a, buf) ==
    IF DecInvalid(a) THEN [outcome |-> "returned", ret |-> ERR, out |-> buf]
    ELSE LET n == DecPlaintextLen(a.len)
             u == crypto_aead_unlock(Slice(a.in, NONCE_LEN + n, MAC_LEN), a.key,
                                     Slice(a.in, 0, NONCE_LEN),
                                     Slice(a.in, NONCE_LEN, n))
         IN  [outcome |-> "returned", ret |-> DecReturnValue(u.result, n),
              out |-> IF u.written THEN u.plain_text ELSE buf]
\* The buffer the caller handed in, before the call wrote to it.
Fresh(buf) == Fill(Len(buf), Uninit)
Alone(c) ==
    IF IsSeal(c)
    THEN AloneEncrypt(arg[c], drawn[c], DrawFailed(c), Fresh(out[c]))
    ELSE AloneDecrypt(arg[c], Fresh(out[c]))

\* C10 (re-entrancy): however the statements of concurrent calls interleave,
\* a finished call gives its caller the return value and output buffer it
\* would give run alone; while a seal holds its nonce (from the draw to the
\* wipe) the nonce storage it reads holds its own draw, and the nonce is
\* wiped when the seal returns.
C10_Reentrant ==
    \A c \in Calls :
       /\ Done(c) =>
             /\ outcome[c] = Alone(c).outcome
             /\ ret[c] = Alone(c).ret
             /\ out[c] = Alone(c).out
       /\ (IsSeal(c) /\ pc[c] \in {"copy", "lock", "wipe"}) =>
             nonceMem[NonceSlot(c)] = drawn[c]
       /\ (IsSeal(c) /\ pc[c] = "enc_return") =>
             nonceMem[NonceSlot(c)] = Zeros(NONCE_LEN)

C10_Witness ==
    \E c1, c2 \in Calls :
       /\ c1 # c2
       /\ IsSeal(c1) /\ pc[c1] = "wipe" /\ drawn[c1] = NonceA
       /\ IsSeal(c2) /\ pc[c2] = "lock" /\ drawn[c2] = NonceB
       /\ nonceMem[NonceSlot(c1)] = NonceA
       /\ nonceMem[NonceSlot(c2)] = NonceB
====
